---- MODULE Spec2Model ----
(***************************************************************************)
(* Model of src/chat.py: the VoiceAssistant (configuration check, frame    *)
(* queue, audio stream, worker thread, translation and synthesis bridges)  *)
(* and the AssistantGUI (listen button, transcript pane).                  *)
(*                                                                         *)
(* Three threads take steps: the Tk main thread (button callbacks), the    *)
(* audio driver's callback thread, and the worker thread process_audio.    *)
(***************************************************************************)
EXTENDS Naturals, Sequences, FiniteSets, TLC

\* ---------------------------------------------------------------- bounds
\* Frames the audio driver delivers over the whole run.
MaxFrames == 2
\* Calls of listen_continuous (capture attempts) over the whole run.
MaxSessions == 2

VARIABLES
    config,            \* AzureConfig handed to VoiceAssistant.__init__
    appPc,             \* "init" | "running" | "failed"   (the __main__ block)
    raised,            \* exception that ended __main__'s try block, or "none"
    clients_init,      \* _init_clients has built the SDK clients
    tcl_threaded,      \* the Tcl library behind tkinter is a threaded build
    a_is_listening,    \* VoiceAssistant.is_listening
    audio_queue,       \* VoiceAssistant.audio_queue, each frame tagged with its session
    audio_stream,      \* VoiceAssistant.audio_stream: "unset" | "stopped" | "active"
    processing_thread, \* VoiceAssistant.processing_thread: "unset" | "set"
    session,           \* number of listen_continuous calls so far
    captured,          \* number of frames the driver has delivered so far
    g_is_listening,    \* AssistantGUI.is_listening: "unset" | "true" | "false"
    listen_btn,        \* text of the listen button
    status,            \* text of the status bar
    guiPc,             \* position of the Tk main thread
    gui_exc,           \* exception that left the last button callback, or "none"
    workerPc,          \* position of the worker thread
    audio_data,        \* frame the worker holds (0: none)
    reason,            \* _process_audio_chunk: result.reason of the chunk
    transcript,        \* text handed to the callback for the chunk, or "nothing"
    translated,        \* process_transcript local
    target_lang,       \* process_transcript local
    exc,               \* exception caught by process_transcript, or "none"
    conversation,      \* entries inserted into the transcript pane
    log,               \* lines written by the logging module
    calls              \* cloud calls made so far, in order

vars == << config, appPc, raised, clients_init, tcl_threaded, a_is_listening,
           audio_queue, audio_stream, processing_thread, session, captured,
           g_is_listening, listen_btn, status, guiPc, gui_exc, workerPc,
           audio_data, reason, transcript, translated, target_lang, exc, conversation, log, calls >>

assistantVars == << a_is_listening, audio_queue, audio_stream, processing_thread,
                    session, captured >>
guiVars == << g_is_listening, listen_btn, status, guiPc, gui_exc >>
workerVars == << workerPc, audio_data, reason, transcript, translated, target_lang, exc >>
startupVars == << config, appPc, raised, clients_init, tcl_threaded >>

\* ---------------------------------------------------------- configuration
\* os.getenv yields None for an unset variable, "" for an empty one.
FieldValues == {"None", "", "value"}

ConfigSpace == [speech_key : FieldValues, speech_region : FieldValues,
                translator_key : FieldValues, translator_region : FieldValues]

\* Python truthiness of a configuration field.
Truthy(v) == v # "None" /\ v # ""

\* A validation that forgets the last field.
ValidConfigSkipsRegion(c) ==
    /\ Truthy(c.speech_key)
    /\ Truthy(c.speech_region)
    /\ Truthy(c.translator_key)

\* _validate_config: all([...]) over the four required fields.
ValidConfig(c) ==
    /\ Truthy(c.speech_key)
    /\ Truthy(c.speech_region)
    /\ Truthy(c.translator_key)
    /\ Truthy(c.translator_region)

Init ==
    /\ config \in ConfigSpace
    /\ appPc = "init"
    /\ raised = "none"
    /\ clients_init = FALSE
    /\ tcl_threaded \in BOOLEAN
    /\ a_is_listening = FALSE
    /\ audio_queue = << >>
    /\ audio_stream = "unset"
    /\ processing_thread = "unset"
    /\ session = 0
    /\ captured = 0
    /\ g_is_listening = "unset"
    /\ listen_btn = "Start Listening"
    /\ status = "Ready"
    /\ guiPc = "mainloop"
    /\ gui_exc = "none"
    /\ workerPc = "none"
    /\ audio_data = 0
    /\ reason = "unset"
    /\ transcript = "nothing"
    /\ translated = "unset"
    /\ target_lang = "unset"
    /\ exc = "none"
    /\ conversation = << >>
    /\ log = << >>
    /\ calls = << >>

\* ------------------------------------------------------------- startup
\* __main__: load_config, VoiceAssistant(config), AssistantGUI(assistant).
\* Any exception is logged as critical and shown in the fatal-error dialog.
Startup ==
    /\ appPc = "init"
    /\ IF ~ValidConfig(config)
         THEN /\ appPc' = "failed"
              /\ raised' = "ValueError"
              /\ clients_init' = FALSE
              /\ log' = Append(log, "critical: Application failed")
         ELSE \E outcome \in {"ok", "AzureError"} :
                IF outcome = "ok"
                  THEN /\ appPc' = "running"
                       /\ raised' = "none"
                       /\ clients_init' = TRUE
                       /\ log' = log
                  ELSE /\ appPc' = "failed"
                       /\ raised' = "AzureError"
                       /\ clients_init' = FALSE
                       /\ log' = Append(Append(log,
                                   "critical: Azure service initialization failed"),
                                   "critical: Application failed")
    /\ UNCHANGED << config, tcl_threaded, assistantVars, guiVars, workerVars,
                    conversation, calls >>

\* ------------------------------------------------------- GUI main thread
\* sd.InputStream(...) and stream.start(): the device may be unavailable at
\* either call, and then PortAudioError is raised.
DeviceOutcomes == {"ok", "open_fails", "start_fails"}

\* toggle_listening's test: not hasattr(self, 'is_listening') or not self.is_listening
GuiIdle == g_is_listening \in {"unset", "false"}

\* start_listening, then listen_continuous up to and including stream.start().
\* The click handler runs on the main thread; an exception leaves the handler
\* and is reported by Tk, the main loop goes on.
StartListening ==
    /\ session < MaxSessions
    /\ g_is_listening' = "true"
    /\ listen_btn' = "Stop Listening"
    /\ status' = "Listening..."
    /\ a_is_listening' = TRUE
    /\ session' = session + 1
    /\ \E device \in DeviceOutcomes :
         \/ /\ device = "open_fails"
            /\ audio_stream' = audio_stream
            /\ gui_exc' = "PortAudioError"
            /\ guiPc' = "mainloop"
         \/ /\ device = "start_fails"
            /\ audio_stream' = "stopped"
            /\ gui_exc' = "PortAudioError"
            /\ guiPc' = "mainloop"
         \/ /\ device = "ok"
            /\ audio_stream' = "active"
            /\ gui_exc' = "none"
            /\ guiPc' = "thread_start"
    /\ UNCHANGED << audio_queue, processing_thread, captured >>

\* AssistantGUI.stop_listening, then VoiceAssistant.stop_listening up to its
\* first test, `if self.audio_stream`, which raises AttributeError when no
\* stream was ever assigned.
StopListening ==
    /\ g_is_listening' = "false"
    /\ listen_btn' = "Start Listening"
    /\ status' = "Ready"
    /\ a_is_listening' = FALSE
    /\ IF audio_stream = "unset"
         THEN /\ gui_exc' = "AttributeError"
              /\ guiPc' = "mainloop"
         ELSE /\ gui_exc' = "none"
              /\ guiPc' = "stop_stream"
    /\ UNCHANGED << audio_queue, audio_stream, processing_thread, session, captured >>

\* A click on the listen button.
ToggleListening ==
    /\ appPc = "running"
    /\ guiPc = "mainloop"
    /\ IF GuiIdle THEN StartListening ELSE StopListening
    /\ UNCHANGED << startupVars, workerVars, conversation, log, calls >>

\* listen_continuous: threading.Thread(target=process_audio).start()
ThreadStart ==
    /\ guiPc = "thread_start"
    /\ processing_thread' = "set"
    /\ workerPc' = "loop_test"
    /\ guiPc' = "mainloop"
    /\ UNCHANGED << startupVars, a_is_listening, audio_queue, audio_stream, session,
                    captured, g_is_listening, listen_btn, status, gui_exc,
                    audio_data, reason, transcript, translated, target_lang, exc,
                    conversation, log, calls >>

\* VoiceAssistant.stop_listening: self.audio_stream.stop(), then the test
\* `if self.processing_thread`, which raises AttributeError when no thread was
\* ever assigned.
StopStream ==
    /\ guiPc = "stop_stream"
    /\ audio_stream' = "stopped"
    /\ IF processing_thread = "unset"
         THEN /\ gui_exc' = "AttributeError"
              /\ guiPc' = "mainloop"
         ELSE /\ gui_exc' = gui_exc
              /\ guiPc' = "join"
    /\ UNCHANGED << startupVars, a_is_listening, audio_queue, processing_thread,
                    session, captured, g_is_listening, listen_btn, status,
                    workerVars, conversation, log, calls >>

\* The worker thread has returned from process_audio or died of an exception.
WorkerExited == workerPc \in {"done", "dead"}

\* VoiceAssistant.stop_listening: self.processing_thread.join() returns.
Join ==
    /\ guiPc = "join"
    /\ WorkerExited
    /\ guiPc' = "mainloop"
    /\ UNCHANGED << startupVars, assistantVars, g_is_listening, listen_btn, status,
                    gui_exc, workerVars, conversation, log, calls >>

\* ------------------------------------------------- audio callback thread
\* audio_callback: log a warning on a status flag, then enqueue a copy of the
\* frame.  The driver calls it only while the stream is active.
AudioCallback ==
    /\ audio_stream = "active"
    /\ captured < MaxFrames
    /\ captured' = captured + 1
    /\ audio_queue' = Append(audio_queue, session)
    /\ \E glitch \in BOOLEAN :
         log' = IF glitch THEN Append(log, "warning: Audio stream status") ELSE log
    /\ UNCHANGED << startupVars, a_is_listening, audio_stream, processing_thread,
                    session, guiVars, workerVars, conversation, calls >>

\* ---------------------------------------------------------- worker thread
\* A tkinter call made off the main thread.  With a threaded Tcl the call is
\* queued to the main thread and the caller waits until the main loop serves
\* it, which it cannot do while a button callback is still running; with a
\* non-threaded Tcl the caller runs the call itself.
TkCallable == ~tcl_threaded \/ guiPc = "mainloop"

\* result.text of a successful recognition.
Transcripts == {"hello"}

\* result.reason of recognize_once_async().get(), or an exception raised on
\* the way (temporary file, wavfile.write, recognizer construction, the call).
RecognizeOutcomes == {"RecognizedSpeech", "NoMatch", "Canceled", "raise"}

\* translator_client.translate: a response, AzureError, or another exception.
TranslateOutcomes == {"ok", "AzureError", "Exception"}

\* result.reason of speak_text_async(text).get().
SynthOutcomes == {"SynthesizingAudioCompleted", "Canceled"}

\* self.output_lang.get(): the combobox keeps its initial selection.
OutputLang == "en"

\* f"Processed in {target_lang}: {translated}"; str(None) is "None".
Response(lang, text) == << "Processed in ", lang, ": ", text >>

Call(kind, text) == [call |-> kind, text |-> text]

\* A loop that ignores the listening flag.
LoopTestIgnoresFlag == TRUE

\* process_audio: `while self.is_listening`
LoopTest == a_is_listening

\* process_audio: the loop test; the thread returns when the flag is clear.
WorkerLoopTest ==
    /\ workerPc = "loop_test"
    /\ workerPc' = IF LoopTest THEN "get" ELSE "done"
    /\ UNCHANGED << startupVars, assistantVars, guiVars, audio_data, reason,
                    transcript, translated, target_lang, exc, conversation, log, calls >>

\* process_audio: self.audio_queue.get(timeout=1); queue.Empty after the
\* timeout sends the worker back to the loop test.
WorkerGet ==
    /\ workerPc = "get"
    /\ IF audio_queue # << >>
         THEN /\ audio_data' = Head(audio_queue)
              /\ audio_queue' = Tail(audio_queue)
              /\ reason' = "unset"
              /\ transcript' = "nothing"
              /\ workerPc' = "recognize"
         ELSE /\ audio_data' = audio_data
              /\ audio_queue' = audio_queue
              /\ reason' = reason
              /\ transcript' = transcript
              /\ workerPc' = "loop_test"
    /\ UNCHANGED << startupVars, a_is_listening, audio_stream, processing_thread,
                    session, captured, guiVars, translated, target_lang, exc,
                    conversation, log, calls >>

\* Where _process_audio_chunk goes on a recognition outcome: the callback on
\* RecognizedSpeech, back to the loop otherwise; an exception is caught nowhere
\* (process_audio catches queue.Empty only) and ends the thread.
AfterRecognize(outcome) ==
    CASE outcome = "RecognizedSpeech" -> "cb_begin"
      [] outcome = "raise" -> "dead"
      [] OTHER -> "loop_test"

\* _process_audio_chunk: what is handed to the callback.  The callback is
\* called with result.text on RecognizedSpeech and not called otherwise.
Delivered(outcome) ==
    IF outcome = "RecognizedSpeech" THEN CHOOSE t \in Transcripts : TRUE ELSE "nothing"

\* _process_audio_chunk: write the frame to a temporary wav file and call the
\* recognizer once.
WorkerRecognize ==
    /\ workerPc = "recognize"
    /\ calls' = Append(calls, Call("recognize", << >>))
    /\ \E outcome \in RecognizeOutcomes :
         /\ workerPc' = AfterRecognize(outcome)
         /\ reason' = IF outcome = "raise" THEN reason ELSE outcome
         /\ transcript' = Delivered(outcome)
    /\ UNCHANGED << startupVars, assistantVars, guiVars, audio_data, translated,
                    target_lang, exc, conversation, log >>

\* process_transcript: conversation.config(state='normal') and the insert of
\* the "User: ..." line, both before the try block.
TranscriptBegin ==
    /\ workerPc = "cb_begin"
    /\ TkCallable
    /\ conversation' = Append(conversation, << "User: ", transcript >>)
    /\ translated' = "unset"
    /\ target_lang' = "unset"
    /\ exc' = "none"
    /\ workerPc' = "translate"
    /\ UNCHANGED << startupVars, assistantVars, guiVars, audio_data, reason,
                    transcript, log, calls >>

\* A process_transcript without its try/except: the exception leaves the
\* callback and ends the worker thread.
AfterTranslateUncaught(outcome) ==
    IF outcome = "Exception" THEN "dead" ELSE "synthesize"

\* Where process_transcript goes after translate_text: on to the synthesis when
\* it returned (a translation, or (None, str(e)) after AzureError), to the
\* except clause when it raised.
AfterTranslate(outcome) ==
    IF outcome = "Exception" THEN "cb_error" ELSE "synthesize"

\* process_transcript: self.output_lang.get(), then translate_text, which
\* returns (text, to), or logs and returns (None, str(e)) on AzureError; any
\* other exception leaves translate_text and reaches process_transcript's
\* except clause.
WorkerTranslate ==
    /\ workerPc = "translate"
    /\ TkCallable
    /\ calls' = Append(calls, Call("translate", << transcript, OutputLang >>))
    /\ \E outcome \in TranslateOutcomes :
         /\ workerPc' = AfterTranslate(outcome)
         /\ \/ /\ outcome = "ok"
               /\ translated' = "hola"
               /\ target_lang' = OutputLang
               /\ exc' = exc
               /\ log' = log
            \/ /\ outcome = "AzureError"
               /\ translated' = "None"
               /\ target_lang' = "translator unavailable"
               /\ exc' = exc
               /\ log' = Append(log, "error: Translation failed")
            \/ /\ outcome = "Exception"
               /\ translated' = translated
               /\ target_lang' = target_lang
               /\ exc' = "translate raised"
               /\ log' = log
    /\ UNCHANGED << startupVars, assistantVars, guiVars, audio_data, reason,
                    transcript, conversation >>

\* synthesize_speech: RuntimeError unless the completion reason is
\* SynthesizingAudioCompleted; process_transcript goes on to the append, or to
\* its except clause.
AfterSynthesis(completion) ==
    IF completion = "SynthesizingAudioCompleted" THEN "append" ELSE "cb_error"

\* process_transcript: build the response and call synthesize_speech.
WorkerSynthesize ==
    /\ workerPc = "synthesize"
    /\ calls' = Append(calls, Call("synthesize", Response(target_lang, translated)))
    /\ \E completion \in SynthOutcomes :
         /\ workerPc' = AfterSynthesis(completion)
         /\ IF completion = "SynthesizingAudioCompleted"
              THEN /\ exc' = exc
                   /\ log' = log
              ELSE /\ exc' = "Speech synthesis failed"
                   /\ log' = Append(log, "error: Speech synthesis failed")
    /\ UNCHANGED << startupVars, assistantVars, guiVars, audio_data, reason,
                    transcript, translated, target_lang, conversation >>

\* process_transcript: the insert of the "Assistant: ..." line.
TranscriptAppend ==
    /\ workerPc = "append"
    /\ TkCallable
    /\ conversation' = Append(conversation,
                              << "Assistant: " >> \o Response(target_lang, translated))
    /\ workerPc' = "cb_end"
    /\ UNCHANGED << startupVars, assistantVars, guiVars, audio_data, reason,
                    transcript, translated, target_lang, exc, log, calls >>

\* process_transcript's except clause: log, then insert "System Error: ...".
TranscriptError ==
    /\ workerPc = "cb_error"
    /\ TkCallable
    /\ log' = Append(log, "error: Processing error")
    /\ conversation' = Append(conversation, << "System Error: ", exc >>)
    /\ workerPc' = "cb_end"
    /\ UNCHANGED << startupVars, assistantVars, guiVars, audio_data, reason,
                    transcript, translated, target_lang, exc, calls >>

\* process_transcript: conversation.see(END), config(state='disabled'), and
\* the return through _process_audio_chunk to the loop.
TranscriptEnd ==
    /\ workerPc = "cb_end"
    /\ TkCallable
    /\ workerPc' = "loop_test"
    /\ UNCHANGED << startupVars, assistantVars, guiVars, audio_data, reason,
                    transcript, translated, target_lang, exc, conversation, log, calls >>

GuiNext == ToggleListening \/ ThreadStart \/ StopStream \/ Join

WorkerNext ==
    \/ WorkerLoopTest
    \/ WorkerGet
    \/ WorkerRecognize
    \/ TranscriptBegin
    \/ WorkerTranslate
    \/ WorkerSynthesize
    \/ TranscriptAppend
    \/ TranscriptError
    \/ TranscriptEnd

Next ==
    \/ Startup
    \/ GuiNext
    \/ AudioCallback
    \/ WorkerNext

Spec == Init /\ [][Next]_vars

\* The operating system schedules every thread that can run: the worker, and
\* the main thread inside a button callback.  Clicks and frames are inputs
\* and carry no fairness.
FairSpec ==
    /\ Spec
    /\ WF_vars(WorkerNext)
    /\ WF_vars(ThreadStart)
    /\ WF_vars(StopStream)
    /\ WF_vars(Join)

\* ================================================================ claims
\* Some required field of the configuration is None or empty.
MissingField ==
    \E f \in {"speech_key", "speech_region", "translator_key", "translator_region"} :
        config[f] \in {"None", ""}

\* C1: once startup has run on a configuration with a missing or empty
\* required field, it has ended in ValueError, no client was initialised and
\* no cloud call was made.
C1_MissingFieldFailsFast ==
    (MissingField /\ appPc # "init") =>
        /\ appPc = "failed"
        /\ raised = "ValueError"
        /\ ~clients_init
        /\ calls = << >>

\* C1 witness: startup has rejected a configuration whose only fault is an
\* empty translator region.
C1_Witness ==
    /\ appPc = "failed"
    /\ raised = "ValueError"
    /\ config.speech_key = "value"
    /\ config.speech_region = "value"
    /\ config.translator_key = "value"
    /\ config.translator_region = ""

\* C2: no synthesis call is ever made for a transcript whose translation
\* failed, i.e. with a response built from the None text.
C2_NoSynthesisAfterFailedTranslation ==
    \A i \in DOMAIN calls :
        calls[i].call = "synthesize" => calls[i].text[4] # "None"

\* C3: while stop_listening waits in its join the listening flag is clear and
\* the worker has exited or can still take a step, so the join returns.
C3_StopTerminates ==
    guiPc = "join" =>
        /\ ~a_is_listening
        /\ WorkerExited \/ ENABLED WorkerNext

\* C3, as a liveness property under FairSpec: a stop that has reached its join
\* returns to the main loop with the listening flag clear.
C3_StopEventuallyReturns ==
    (guiPc = "join") ~> (guiPc = "mainloop" /\ ~a_is_listening)

\* The Idle state of the GUI: nothing captures, the controls read Idle.
IdleState ==
    /\ g_is_listening \in {"unset", "false"}
    /\ listen_btn = "Start Listening"
    /\ status = "Ready"
    /\ ~a_is_listening
    /\ audio_stream # "active"
    /\ workerPc = "none" \/ WorkerExited

\* The Listening state of the GUI: flag set, stream and worker started.
ListeningState ==
    /\ g_is_listening = "true"
    /\ listen_btn = "Stop Listening"
    /\ status = "Listening..."
    /\ a_is_listening
    /\ audio_stream = "active"
    /\ processing_thread = "set"
    /\ workerPc \notin {"none", "done"}

\* C4: between button clicks the system is in Idle or in Listening, and in no
\* other state.
C4_TwoStates ==
    (appPc = "running" /\ guiPc = "mainloop") => IdleState \/ ListeningState

\* The cloud calls made since the last recognition, by kind.
RECURSIVE KindsSinceRecognize(_)
KindsSinceRecognize(cs) ==
    IF cs = << >> \/ cs[Len(cs)].call = "recognize"
      THEN << >>
      ELSE Append(KindsSinceRecognize(SubSeq(cs, 1, Len(cs) - 1)), cs[Len(cs)].call)

\* The entries inserted after the last "User: " line.
RECURSIVE EntriesSinceUser(_)
EntriesSinceUser(es) ==
    IF es = << >> \/ es[Len(es)][1] = "User: "
      THEN << >>
      ELSE Append(EntriesSinceUser(SubSeq(es, 1, Len(es) - 1)), es[Len(es)])

\* C5: inside process_transcript the steps run as translation, synthesis,
\* append; a step that raised is followed by the "System Error" entry and by
\* none of the later steps; every error entry has its log line; the worker
\* never dies inside process_transcript.
C5_StrictSequence ==
    LET kinds == KindsSinceRecognize(calls)
        entries == EntriesSinceUser(conversation)
    IN /\ workerPc = "translate" => kinds = << >> /\ entries = << >>
       /\ workerPc = "synthesize" =>
            kinds = << "translate" >> /\ entries = << >> /\ exc = "none"
       /\ workerPc = "append" =>
            kinds = << "translate", "synthesize" >> /\ entries = << >> /\ exc = "none"
       /\ workerPc = "cb_error" =>
            /\ entries = << >>
            /\ \/ exc = "translate raised" /\ kinds = << "translate" >>
               \/ exc = "Speech synthesis failed" /\ kinds = << "translate", "synthesize" >>
       /\ workerPc = "cb_end" =>
            \/ /\ exc = "none"
               /\ kinds = << "translate", "synthesize" >>
               /\ entries = << << "Assistant: " >> \o Response(target_lang, translated) >>
            \/ /\ exc = "translate raised"
               /\ kinds = << "translate" >>
               /\ entries = << << "System Error: ", exc >> >>
            \/ /\ exc = "Speech synthesis failed"
               /\ kinds = << "translate", "synthesize" >>
               /\ entries = << << "System Error: ", exc >> >>
       /\ workerPc = "dead" => calls[Len(calls)].call = "recognize"
       /\ Cardinality({i \in DOMAIN log : log[i] = "error: Processing error"})
            = Cardinality({i \in DOMAIN conversation :
                             conversation[i][1] = "System Error: "})

\* C5 witness: a translation call raised, the error entry was rendered and
\* the callback is about to return.
C5_Witness ==
    /\ workerPc = "cb_end"
    /\ exc = "translate raised"
    /\ conversation[Len(conversation)] = << "System Error: ", "translate raised" >>

\* C6: while a session is on (flags set, stream active, worker started) the
\* worker is running, whatever calls have failed.
C6_SessionContinues ==
    ListeningState => workerPc # "dead"

\* The fixed text for a chunk that was not understood.
Sentinel == "Sorry, I didn't catch that."

\* C7: a chunk whose recognition reports a non-success reason is handed on as
\* the sentinel text.
C7_SentinelOnNoMatch ==
    reason \in {"NoMatch", "Canceled"} => transcript = Sentinel

\* C8: after a capture attempt failed on the device the system is Idle again.
C8_FailedStartLeavesIdle ==
    (guiPc = "mainloop" /\ gui_exc = "PortAudioError") => IdleState

\* C9 as stated: no frame leaves the queue once the flag is clear.
C9_NoDequeueAfterClear ==
    [][~a_is_listening => Len(audio_queue') >= Len(audio_queue)]_vars

\* Where the worker can be after one more step of an iteration in progress.
IterationSuccessors(pc) ==
    CASE pc = "get" -> {"get", "recognize", "loop_test"}
      [] pc = "recognize" -> {"recognize", "cb_begin", "loop_test", "dead"}
      [] pc = "cb_begin" -> {"cb_begin", "translate"}
      [] pc = "translate" -> {"translate", "synthesize", "cb_error"}
      [] pc = "synthesize" -> {"synthesize", "append", "cb_error"}
      [] pc = "append" -> {"append", "cb_end"}
      [] pc = "cb_error" -> {"cb_error", "cb_end"}
      [] pc = "cb_end" -> {"cb_end", "loop_test"}
      [] OTHER -> {pc}

\* C9 amended: with the flag clear, a loop test ends the thread, and an
\* iteration in progress is not cut short: it goes on step by step, its
\* dequeue included.
C9_CooperativeStop ==
    [][~a_is_listening =>
         /\ workerPc = "loop_test" => workerPc' \in {"loop_test", "done"}
         /\ workerPc # "loop_test" => workerPc' \in IterationSuccessors(workerPc)]_vars

\* C9 witness: the flag was cleared while a synthesis call is in flight.
C9_Witness ==
    /\ ~a_is_listening
    /\ guiPc = "join"
    /\ workerPc = "synthesize"

\* C10: the frame the worker recognizes was captured in the current session.
C10_NoStaleFrame ==
    workerPc = "recognize" => audio_data = session
====
